---- MODULE Spec2Model ----
(***************************************************************************)
(* Model of the DadHatHub backend (src/server.js): the Stripe webhook      *)
(* intake with its translation of a completed checkout session into a      *)
(* Printful order, the create-checkout-session endpoint, the two product   *)
(* endpoints, and the order in which each server file of the repository    *)
(* registers its middleware.                                                *)
(*                                                                         *)
(* One POST /api/stripe/create-checkout-session request and one            *)
(* POST /webhook request are followed from arrival to response.  Every      *)
(* action is one synchronous segment of a handler: the code between two     *)
(* awaits, including the catch block an exception of that segment lands in. *)
(* Stripe and Printful are the environment: their answers are chosen        *)
(* nondeterministically (return or throw).                                  *)
(*                                                                         *)
(* JavaScript values: a string is a sequence of one-character strings, a    *)
(* number is a record [nan, v] (NaN is a number), an object is a record,    *)
(* and a property that is undefined is a field missing from the record.     *)
(***************************************************************************)
EXTENDS Integers, Sequences, FiniteSets, TLC

VARIABLES
    chkPc,          \* create-checkout-session handler: "idle", "awaitCreate", "done"
    chkBody,        \* req.body of the create-checkout-session request
    chkStatus,      \* HTTP status sent by create-checkout-session (0: none yet)
    createCalls,    \* arguments of the stripeClient.checkout.sessions.create calls
    stripeSessions, \* the sessions Stripe holds, as created by those calls
    whPc,           \* webhook handler: "idle", "awaitListLineItems", "awaitPrintful", "done"
    whReq,          \* the webhook request: headers and raw body
    whStatus,       \* HTTP status sent by the webhook handler (0: none yet)
    whFetched,      \* lineItems.data as returned by listLineItems
    listCalls,      \* number of listLineItems calls issued
    printfulCalls,  \* bodies of the POSTs to https://api.printful.com/orders
    postOutcome,    \* "none", "pending", "returned", "threw"
    errLog,         \* console.error lines, in order
    prodPc,         \* GET /api/products handler: "idle", "awaitList", "awaitDetails", "done"
    prodList,       \* response.data.result of the store/products call
    prodDetail,     \* per product, the state of its detail fetch and its entry
    prodStatus,     \* HTTP status sent by GET /api/products (0: none yet)
    prodBody,       \* body.products of the 200 response
    prodSent,       \* number of responses GET /api/products has sent
    pdPc,           \* GET /api/products/:id handler: "idle", "awaitDetail", "done"
    pdResult,       \* response.data.result of its store/products/:id call
    pdStatus,       \* HTTP status sent by GET /api/products/:id (0: none yet)
    pdBody,         \* productDetails of its 200 response
    priceIn,        \* a retail_price string
    priceOut,       \* parseFloat(retail_price) * 100
    mwFile,         \* the server file whose app handles the request
    mwReq,          \* the request dispatched through the middleware stack
    mwNext,         \* index of the next layer of the stack to run (0: no request)
    mwBody,         \* req.body: "unread", "buffer" (raw bytes) or "object" (parsed)
    mwSeen,         \* req.body as the /webhook handler received it ("none": not reached)
    dlReq,          \* the request delivered repeatedly (<<>>: none yet)
    dlPc,           \* per delivery of one event: the webhook handler's position
    dlStatus,       \* per delivery: HTTP status sent (0: none yet)
    dlFetched,      \* per delivery: whether listLineItems returned
    dlOrders        \* POSTs to Printful: <<delivery>>, in order of issue

chkVars == <<chkPc, chkBody, chkStatus, createCalls, stripeSessions>>

whVars == <<whPc, whReq, whStatus, whFetched, listCalls, printfulCalls, postOutcome, errLog>>

prodVars == <<prodPc, prodList, prodDetail, prodStatus, prodBody, prodSent>>

pdVars == <<pdPc, pdResult, pdStatus, pdBody>>

priceVars == <<priceIn, priceOut>>

mwVars == <<mwFile, mwReq, mwNext, mwBody, mwSeen>>

dlVars == <<dlReq, dlPc, dlStatus, dlFetched, dlOrders>>

\* the variables no step of the checkout and webhook handlers touches
auxVars == <<prodVars, pdVars, priceVars, mwVars, dlVars>>

vars == <<chkVars, whVars, prodVars, pdVars, priceVars, mwVars, dlVars>>

(***************************************************************************)
(* Bounds of the model.                                                     *)
(***************************************************************************)
MaxCart == 2

MinVariantId == 7

MaxVariantId == 120

MaxPrice == 1999

MaxQty == 2

MaxProductId == 3

MaxProducts == 2

MaxDeliveries == 3

Deliveries == 1..MaxDeliveries

VariantIds == {MinVariantId, MaxVariantId}

Prices == {0, MaxPrice}

Quantities == {1, MaxQty}

(***************************************************************************)
(* JavaScript numbers and strings.                                          *)
(***************************************************************************)
Num(n) == [nan |-> FALSE, v |-> n]

NaN == [nan |-> TRUE, v |-> 0]

DigitChars == <<"0", "1", "2", "3", "4", "5", "6", "7", "8", "9">>

DigitChar(d) == DigitChars[d + 1]

IsDigit(c) == \E d \in 0..9 : DigitChars[d + 1] = c

DigitVal(c) == CHOOSE d \in 0..9 : DigitChars[d + 1] = c

UndefinedString == <<"u", "n", "d", "e", "f", "i", "n", "e", "d">>

RECURSIVE NatToString(_)
NatToString(n) ==
    IF n < 10 THEN <<DigitChar(n)>>
    ELSE NatToString(n \div 10) \o <<DigitChar(n % 10)>>

\* String(x) for an integer x
String(n) == IF n < 0 THEN <<"-">> \o NatToString(-n) ELSE NatToString(n)

\* the longest prefix of s made of digits of the radix
RECURSIVE DigitPrefix(_, _)
DigitPrefix(s, radix) ==
    IF s # <<>> /\ IsDigit(Head(s)) /\ DigitVal(Head(s)) < radix
    THEN <<Head(s)>> \o DigitPrefix(Tail(s), radix)
    ELSE <<>>

RECURSIVE DigitsValue(_, _)
DigitsValue(ds, radix) ==
    IF ds = <<>> THEN 0
    ELSE DigitsValue(SubSeq(ds, 1, Len(ds) - 1), radix) * radix + DigitVal(ds[Len(ds)])

ParseIntRadix8(s, radix) ==
    LET neg == s # <<>> /\ Head(s) = "-"
        signed == s # <<>> /\ Head(s) \in {"-", "+"}
        ds == DigitPrefix(IF signed THEN Tail(s) ELSE s, 8)
    IN  IF ds = <<>> THEN NaN
        ELSE Num((IF neg THEN -1 ELSE 1) * DigitsValue(ds, 8))

\* parseInt(s, radix): optional sign, then the digits up to the first
\* character that is no digit of the radix; NaN when there is no digit
ParseInt(s, radix) ==
    LET neg == s # <<>> /\ Head(s) = "-"
        signed == s # <<>> /\ Head(s) \in {"-", "+"}
        ds == DigitPrefix(IF signed THEN Tail(s) ELSE s, radix)
    IN  IF ds = <<>> THEN NaN
        ELSE Num((IF neg THEN -1 ELSE 1) * DigitsValue(ds, radix))

\* a || b on string-valued properties: undefined and "" are falsy
OrElse(obj, field, default) ==
    IF field \in DOMAIN obj /\ obj[field] # "" THEN obj[field] ELSE default

(***************************************************************************)
(* IEEE 754 doubles, as far as parseFloat(retail_price) * 100 needs them.   *)
(* A finite non-negative double is [m, e]: the binary digits m (most        *)
(* significant first, no leading and no trailing zero, at most 53 of them)  *)
(* of an integer, times 2^e.  Zero is [<<>>, 0].  Every operation rounds    *)
(* its exact result to the nearest such value, ties to even.                *)
(***************************************************************************)
MantissaBits == 53

\* binary digits worked on at a time, and digits after the point kept before
\* rounding (a multiple of ChunkBits, more than MantissaBits plus the leading
\* zeros of the smallest price)
ChunkBits == 8

FractionBits == 64

NotANumber == [m |-> <<>>, e |-> 0, nan |-> TRUE]

\* the w low binary digits of n, most significant first
PadBits(n, w) == [i \in 1..w |-> (n \div 2^(w - i)) % 2]

\* the binary digits of n, for 0 <= n < 2^30
Bits(n) == PadBits(n, CHOOSE l \in 0..30 : n < 2^l /\ (l = 0 \/ 2^(l - 1) <= n))

RECURSIVE BitsValue(_)
BitsValue(b) ==
    IF b = <<>> THEN 0 ELSE 2 * BitsValue(SubSeq(b, 1, Len(b) - 1)) + b[Len(b)]

Ones(b) == {i \in 1..Len(b) : b[i] = 1}

First(S) == CHOOSE i \in S : \A j \in S : i <= j

Last(S) == CHOOSE i \in S : \A j \in S : j <= i

StripLeading(b) == IF Ones(b) = {} THEN <<>> ELSE SubSeq(b, First(Ones(b)), Len(b))

\* b * 2^e without leading and trailing zeros
Normalize(b, e) ==
    IF Ones(b) = {} THEN [m |-> <<>>, e |-> 0]
    ELSE [m |-> SubSeq(b, First(Ones(b)), Last(Ones(b))), e |-> e + Len(b) - Last(Ones(b))]

\* b + 1 on binary digits
Increment(b) ==
    LET zeros == {i \in 1..Len(b) : b[i] = 0}
    IN  IF zeros = {} THEN <<1>> \o [i \in 1..Len(b) |-> 0]
        ELSE [i \in 1..Len(b) |->
                IF i < Last(zeros) THEN b[i] ELSE IF i = Last(zeros) THEN 1 ELSE 0]

\* the double nearest to b * 2^e (plus a nonzero amount below the last digit
\* of b when sticky), b without leading zeros
RoundToDouble(b, e, sticky) ==
    IF Len(b) <= MantissaBits THEN Normalize(b, e)
    ELSE LET kept == SubSeq(b, 1, MantissaBits)
             guard == b[MantissaBits + 1]
             rest == sticky \/ \E i \in (MantissaBits + 2)..Len(b) : b[i] = 1
             up == guard = 1 /\ (rest \/ kept[MantissaBits] = 1)
         IN  Normalize(IF up THEN Increment(kept) ELSE kept, e + Len(b) - MantissaBits)

\* the first n binary digits of r / den after the point, for 0 <= r < den
RECURSIVE FracBits(_, _, _)
FracBits(r, den, n) ==
    IF n = 0 THEN <<>>
    ELSE PadBits((r * 2^ChunkBits) \div den, ChunkBits)
            \o FracBits((r * 2^ChunkBits) % den, den, n - ChunkBits)

\* what is left of r / den below those n digits, times den * 2^n
RECURSIVE FracRemainder(_, _, _)
FracRemainder(r, den, n) ==
    IF n = 0 THEN r ELSE FracRemainder((r * 2^ChunkBits) % den, den, n - ChunkBits)

\* the double nearest to num / den
ToDouble(num, den) ==
    RoundToDouble(
        StripLeading(Bits(num \div den) \o FracBits(num % den, den, FractionBits)),
        -FractionBits,
        FracRemainder(num % den, den, FractionBits) # 0)

IntToDouble(n) == ToDouble(n, 1)

\* the binary digits of b * k + carry
RECURSIVE MulBits(_, _, _)
MulBits(b, k, carry) ==
    IF b = <<>> THEN Bits(carry)
    ELSE LET w == IF Len(b) < ChunkBits THEN Len(b) ELSE ChunkBits
             t == BitsValue(SubSeq(b, Len(b) - w + 1, Len(b))) * k + carry
         IN  MulBits(SubSeq(b, 1, Len(b) - w), k, t \div 2^w) \o PadBits(t % 2^w, w)

\* d * k in double arithmetic, k a small integer
TimesInt(d, k) ==
    IF "nan" \in DOMAIN d THEN d
    ELSE RoundToDouble(StripLeading(MulBits(d.m, k, 0)), d.e, FALSE)

RECURSIVE DecimalValue(_)
DecimalValue(ds) ==
    IF ds = <<>> THEN 0 ELSE DecimalValue(SubSeq(ds, 1, Len(ds) - 1)) * 10 + DigitVal(ds[Len(ds)])

RECURSIVE PowerOfTen(_)
PowerOfTen(n) == IF n = 0 THEN 1 ELSE 10 * PowerOfTen(n - 1)

\* parseFloat(s) for an unsigned decimal literal: the digits, then if a point
\* follows them the digits after it; NaN when s starts with neither
ParseFloat(s) ==
    LET whole == DigitPrefix(s, 10)
        after == SubSeq(s, Len(whole) + 1, Len(s))
        frac == IF after # <<>> /\ Head(after) = "." THEN DigitPrefix(Tail(after), 10)
                ELSE <<>>
    IN  IF whole = <<>> /\ frac = <<>> THEN NotANumber
        ELSE ToDouble(DecimalValue(whole \o frac), PowerOfTen(Len(frac)))

\* parseFloat(retail_price) * 100
PriceInMinorUnits(retail_price) == TimesInt(ParseFloat(retail_price), 100)

\* the decimal string of c minor units, with two fraction digits
PriceString(c) ==
    String(c \div 100) \o <<".">> \o <<DigitChar((c % 100) \div 10), DigitChar(c % 10)>>

RetailPrices == {PriceString(c) : c \in 0..MaxPrice}

(***************************************************************************)
(* POST /api/stripe/create-checkout-session                                 *)
(***************************************************************************)
CartItems ==
    [id : {MaxProductId}, name : {"Dad Hat"}, price : Prices,
     thumbnail_url : {"hat.png"}, variant_id : VariantIds, quantity : Quantities]

Carts == UNION {[1..n -> CartItems] : n \in 0..MaxCart}

CustomerInfo == [email |-> "ann@example.com"]

\* req.body: cart and customerInfo may each be missing (undefined)
CheckoutBodies ==
    {[cart |-> c, customerInfo |-> CustomerInfo] : c \in Carts}
        \cup {[cart |-> c] : c \in Carts}
        \cup {[customerInfo |-> CustomerInfo]}

BuildLineItemScaled(item) ==
    [price_data |->
        [currency |-> "usd",
         product_data |-> [name |-> item.name, images |-> <<item.thumbnail_url>>],
         unit_amount |-> item.price * 100,
         metadata |-> [variant_id |-> String(item.variant_id),
                       product_id |-> String(item.id)]],
     quantity |-> item.quantity]

\* the callback of cart.map
BuildLineItem(item) ==
    [price_data |->
        [currency |-> "usd",
         product_data |-> [name |-> item.name, images |-> <<item.thumbnail_url>>],
         unit_amount |-> item.price,
         metadata |-> [variant_id |-> String(item.variant_id),
                       product_id |-> String(item.id)]],
     quantity |-> item.quantity]

BuildLineItems(cart) == [i \in 1..Len(cart) |-> BuildLineItem(cart[i])]

SessionCreateParams(body) ==
    [payment_method_types |-> <<"card">>,
     line_items |-> BuildLineItems(body.cart),
     mode |-> "payment",
     customer_email |-> body.customerInfo.email,
     shipping_address_collection |-> [allowed_countries |-> <<"US", "CA">>],
     billing_address_collection |-> "required"]

\* cart.map on undefined and customerInfo.email on undefined throw a
\* TypeError before the create call is made
CheckoutThrowsBeforeCreate(body) ==
    "cart" \notin DOMAIN body \/ "customerInfo" \notin DOMAIN body

\* the handler up to `await stripeClient.checkout.sessions.create(...)`
CreateCheckoutSession(body) ==
    /\ chkPc = "idle"
    /\ chkBody' = body
    /\ IF CheckoutThrowsBeforeCreate(body)
       THEN /\ errLog' = Append(errLog, "Stripe Checkout Session Error")
            /\ chkStatus' = 500
            /\ chkPc' = "done"
            /\ UNCHANGED createCalls
       ELSE /\ createCalls' = Append(createCalls, SessionCreateParams(body))
            /\ chkPc' = "awaitCreate"
            /\ UNCHANGED <<chkStatus, errLog>>
    /\ UNCHANGED <<stripeSessions, whPc, whReq, whStatus, whFetched, listCalls,
                   printfulCalls, postOutcome>>
    /\ UNCHANGED auxVars

SessionId == "cs_test_1"

\* Stripe creates the session (it refuses a session without line items) and
\* the handler answers 200 {id}
StripeCreateReturns ==
    /\ chkPc = "awaitCreate"
    /\ createCalls[Len(createCalls)].line_items # <<>>
    /\ stripeSessions' = Append(stripeSessions,
            [id |-> SessionId, line_items |-> createCalls[Len(createCalls)].line_items])
    /\ chkStatus' = 200
    /\ chkPc' = "done"
    /\ UNCHANGED <<chkBody, createCalls, errLog>>
    /\ UNCHANGED whVars
    /\ UNCHANGED auxVars

\* the create call rejects: the catch block answers 500
StripeCreateThrows ==
    /\ chkPc = "awaitCreate"
    /\ errLog' = Append(errLog, "Stripe Checkout Session Error")
    /\ chkStatus' = 500
    /\ chkPc' = "done"
    /\ UNCHANGED <<chkBody, createCalls, stripeSessions>>
    /\ UNCHANGED <<whPc, whReq, whStatus, whFetched, listCalls, printfulCalls, postOutcome>>
    /\ UNCHANGED auxVars

(***************************************************************************)
(* POST /webhook                                                            *)
(***************************************************************************)
EndpointSecret == "whsec_endpoint"

WrongSecret == "whsec_other"

Secrets == {EndpointSecret, WrongSecret}

FullCustomerDetails ==
    [name |-> "Ann Lee", email |-> "ann@example.com", phone |-> "555-0100",
     address |-> [line1 |-> "1 Main St", line2 |-> "Apt 2", city |-> "Toronto",
                  state |-> "ON", country |-> "CA", postal_code |-> "M5V"]]

\* name, phone, address.line2 and address.country not collected
SparseCustomerDetails ==
    [email |-> "bo@example.com",
     address |-> [line1 |-> "1 Main St", city |-> "Austin", state |-> "TX",
                  postal_code |-> "78701"]]

CompletedEvent(session) ==
    [type |-> "checkout.session.completed", data |-> [object |-> session]]

\* the event payloads Stripe (or anyone else) may put in a request body
Events ==
    {CompletedEvent([id |-> SessionId, customer_details |-> FullCustomerDetails]),
     CompletedEvent([id |-> SessionId, customer_details |-> SparseCustomerDetails]),
     CompletedEvent([id |-> SessionId]),
     [type |-> "payment_intent.succeeded", data |-> [object |-> [id |-> "pi_test_1"]]]}

\* the stripe-signature of a payload under a secret (an ideal MAC: it names
\* the payload and the secret it was computed from, and nothing else matches)
Sign(payload, secret) == [payload |-> payload, secret |-> secret]

\* requests: any body, signed or not, by any secret, over any payload
WebhookRequests ==
    {[headers |-> [stripe_signature |-> Sign(p, k)], body |-> b] :
        p \in Events, k \in Secrets, b \in Events}
        \cup {[headers |-> <<>>, body |-> b] : b \in Events}

ConstructEventOkAnySecret(body, headers, secret) ==
    /\ "stripe_signature" \in DOMAIN headers
    /\ \E k \in Secrets : headers.stripe_signature = Sign(body, k)

\* stripeClient.webhooks.constructEvent(req.body, sig, endpointSecret) returns
\* (does not throw) exactly when the header is the signature of this raw body
\* under the endpoint secret
ConstructEventOk(body, headers, secret) ==
    /\ "stripe_signature" \in DOMAIN headers
    /\ headers.stripe_signature = Sign(body, secret)

IsCheckoutCompletedAny(event) == TRUE

\* event.type === 'checkout.session.completed'
IsCheckoutCompleted(event) == event.type = "checkout.session.completed"

\* the callback of lineItems.data.map: parseInt(undefined, 10) parses the
\* string "undefined"
PrintfulItem(item) ==
    [variant_id |->
        ParseInt(IF "variant_id" \in DOMAIN item.price.metadata
                 THEN item.price.metadata.variant_id
                 ELSE UndefinedString, 10),
     quantity |-> item.quantity]

PrintfulItems(data) == [i \in 1..Len(data) |-> PrintfulItem(data[i])]

\* reading customer_details.name of undefined, or customer_details.address.line1
\* of undefined, throws a TypeError
RecipientThrows(session) ==
    \/ "customer_details" \notin DOMAIN session
    \/ "address" \notin DOMAIN session.customer_details

Recipient(customer_details) ==
    [name |-> OrElse(customer_details, "name", "No Name Provided"),
     address1 |-> OrElse(customer_details.address, "line1", ""),
     address2 |-> OrElse(customer_details.address, "line2", ""),
     city |-> OrElse(customer_details.address, "city", ""),
     state_code |-> OrElse(customer_details.address, "state", ""),
     country_code |-> OrElse(customer_details.address, "country", "US"),
     zip |-> OrElse(customer_details.address, "postal_code", "")]

PrintfulOrder(session, data) ==
    [recipient |-> Recipient(session.customer_details),
     items |-> PrintfulItems(data),
     confirm |-> 1]

SignatureFailedMessage == "Webhook signature verification failed"

\* the handler up to `await stripeClient.checkout.sessions.listLineItems(...)`,
\* or to its response when it does not get that far
WebhookRequest(req) ==
    /\ whPc = "idle"
    /\ whReq' = req
    /\ IF ~ConstructEventOk(req.body, req.headers, EndpointSecret)
       THEN /\ errLog' = Append(errLog, SignatureFailedMessage)
            /\ whStatus' = 400
            /\ whPc' = "done"
            /\ UNCHANGED listCalls
       ELSE IF IsCheckoutCompleted(req.body)
       THEN /\ listCalls' = listCalls + 1
            /\ whPc' = "awaitListLineItems"
            /\ UNCHANGED <<whStatus, errLog>>
       ELSE /\ whStatus' = 200
            /\ whPc' = "done"
            /\ UNCHANGED <<listCalls, errLog>>
    /\ UNCHANGED <<whFetched, printfulCalls, postOutcome>>
    /\ UNCHANGED chkVars
    /\ UNCHANGED auxVars

\* a line item as Stripe lists it; keep says whether the price carries the
\* metadata given at session creation
ListedLineItem(li, keep) ==
    [price |-> [unit_amount |-> li.price_data.unit_amount,
                metadata |-> IF keep THEN li.price_data.metadata ELSE <<>>],
     quantity |-> li.quantity]

ListedLineItems(items, kept) ==
    [i \in 1..Len(items) |-> ListedLineItem(items[i], i \in kept)]

\* what listLineItems(session.id) may return: the line items of a session
\* of that id, each with or without its metadata
ListLineItemsResponses(id) ==
    UNION {{ListedLineItems(stripeSessions[n].line_items, kept) :
                kept \in SUBSET (1..Len(stripeSessions[n].line_items))} :
           n \in {m \in 1..Len(stripeSessions) : stripeSessions[m].id = id}}

ListLineItemsReturnsThenAcknowledges ==
    /\ whPc = "awaitListLineItems"
    /\ \E data \in ListLineItemsResponses(whReq.body.data.object.id) :
         /\ whFetched' = <<data>>
         /\ IF RecipientThrows(whReq.body.data.object)
            THEN /\ errLog' = Append(errLog, SignatureFailedMessage)
                 /\ whStatus' = 400
                 /\ whPc' = "done"
                 /\ UNCHANGED <<printfulCalls, postOutcome>>
            ELSE /\ printfulCalls' =
                     Append(printfulCalls, PrintfulOrder(whReq.body.data.object, data))
                 /\ postOutcome' = "pending"
                 /\ whStatus' = 200
                 /\ whPc' = "awaitPrintful"
                 /\ UNCHANGED errLog
    /\ UNCHANGED <<whReq, listCalls>>
    /\ UNCHANGED chkVars
    /\ UNCHANGED auxVars

\* listLineItems returns: the handler from there to `await axios.post(...)`,
\* or to the outer catch when building the recipient throws
ListLineItemsReturns ==
    /\ whPc = "awaitListLineItems"
    /\ \E data \in ListLineItemsResponses(whReq.body.data.object.id) :
         /\ whFetched' = <<data>>
         /\ IF RecipientThrows(whReq.body.data.object)
            THEN /\ errLog' = Append(errLog, SignatureFailedMessage)
                 /\ whStatus' = 400
                 /\ whPc' = "done"
                 /\ UNCHANGED <<printfulCalls, postOutcome>>
            ELSE /\ printfulCalls' =
                     Append(printfulCalls, PrintfulOrder(whReq.body.data.object, data))
                 /\ postOutcome' = "pending"
                 /\ whPc' = "awaitPrintful"
                 /\ UNCHANGED <<whStatus, errLog>>
    /\ UNCHANGED <<whReq, listCalls>>
    /\ UNCHANGED chkVars
    /\ UNCHANGED auxVars

ListLineItemsThrowsUncaught ==
    /\ whPc = "awaitListLineItems"
    /\ errLog' = Append(errLog, SignatureFailedMessage)
    /\ whPc' = "done"
    /\ UNCHANGED <<whReq, whStatus, whFetched, listCalls, printfulCalls, postOutcome>>
    /\ UNCHANGED chkVars
    /\ UNCHANGED auxVars

\* listLineItems rejects: the outer catch answers 400
ListLineItemsThrows ==
    /\ whPc = "awaitListLineItems"
    /\ errLog' = Append(errLog, SignatureFailedMessage)
    /\ whStatus' = 400
    /\ whPc' = "done"
    /\ UNCHANGED <<whReq, whFetched, listCalls, printfulCalls, postOutcome>>
    /\ UNCHANGED chkVars
    /\ UNCHANGED auxVars

\* axios.post resolves: the handler answers 200
PrintfulPostReturns ==
    /\ whPc = "awaitPrintful"
    /\ postOutcome' = "returned"
    /\ whStatus' = 200
    /\ whPc' = "done"
    /\ UNCHANGED <<whReq, whFetched, listCalls, printfulCalls, errLog>>
    /\ UNCHANGED chkVars
    /\ UNCHANGED auxVars

PrintfulPostThrowsToOuterCatch ==
    /\ whPc = "awaitPrintful"
    /\ postOutcome' = "threw"
    /\ errLog' = Append(errLog, SignatureFailedMessage)
    /\ whStatus' = 400
    /\ whPc' = "done"
    /\ UNCHANGED <<whReq, whFetched, listCalls, printfulCalls>>
    /\ UNCHANGED chkVars
    /\ UNCHANGED auxVars

\* axios.post rejects: the inner catch logs, and the handler answers 200
PrintfulPostThrows ==
    /\ whPc = "awaitPrintful"
    /\ postOutcome' = "threw"
    /\ errLog' = Append(errLog, "Error creating Printful order")
    /\ whStatus' = 200
    /\ whPc' = "done"
    /\ UNCHANGED <<whReq, whFetched, listCalls, printfulCalls>>
    /\ UNCHANGED chkVars
    /\ UNCHANGED auxVars

(***************************************************************************)
(* GET /api/products and GET /api/products/:id                              *)
(***************************************************************************)
\* a product of the store/products list; a bare one has no name and no
\* thumbnail_url
UpstreamProduct(id, complete) ==
    IF complete THEN [id |-> id, name |-> "Dad Hat", thumbnail_url |-> "thumb.png"]
    ELSE [id |-> id]

\* response.data.result of the list call: the product at position i has id i
ProductLists ==
    UNION {{[i \in 1..n |-> UpstreamProduct(i, complete[i])] :
                complete \in [1..n -> BOOLEAN]} : n \in 0..MaxProducts}

PreviewFile == [type |-> "preview", preview_url |-> "preview.png"]

DefaultFile == [type |-> "default", preview_url |-> "print.png"]

SyncVariant ==
    [id |-> MinVariantId, name |-> "Dad Hat / Black", retail_price |-> PriceString(MaxPrice)]

\* sync_variants of a detail response: a variant with a preview file, one
\* with files but no preview, one without files, and no variant at all
SyncVariantLists ==
    {<<SyncVariant @@ [files |-> <<DefaultFile, PreviewFile>>]>>,
     <<SyncVariant @@ [files |-> <<DefaultFile>>]>>,
     <<SyncVariant>>,
     <<>>}

SyncProducts(id) ==
    {[id |-> id, name |-> "Dad Hat", description |-> "A hat", thumbnail_url |-> "thumb.png"],
     [id |-> id, name |-> "Dad Hat"]}

\* data.result of a store/products/:id response; sync_variants may be missing
DetailResults(id) ==
    {[sync_product |-> sp, sync_variants |-> vs] :
        sp \in SyncProducts(id), vs \in SyncVariantLists}
        \cup {[sync_product |-> sp] : sp \in SyncProducts(id)}

\* null, where a string is expected
NullString == "<null>"

\* null, where a number is expected
NullNumber == [null |-> TRUE]

\* files.find((file) => file.type === 'preview')?.preview_url, or NullString
\* when there is none
PreviewUrl(files) ==
    LET previews == {i \in 1..Len(files) : files[i].type = "preview"}
    IN  IF previews = {} THEN NullString
        ELSE OrElse(files[First(previews)], "preview_url", NullString)

\* details.sync_variants[0] of undefined, and .files.find of undefined, throw
EnrichThrows(details) ==
    \/ "sync_variants" \notin DOMAIN details
    \/ /\ details.sync_variants # <<>>
       /\ "files" \notin DOMAIN details.sync_variants[1]

FirstVariantPreview(details) ==
    IF details.sync_variants = <<>> THEN NullString
    ELSE PreviewUrl(details.sync_variants[1].files)

\* the entry the map callback returns for a product and its details
EnrichProduct(product, details) ==
    [id |-> product.id,
     name |-> OrElse(product, "name", "No name available"),
     thumbnail_url |->
        IF FirstVariantPreview(details) # NullString THEN FirstVariantPreview(details)
        ELSE OrElse(product, "thumbnail_url", "default_image_url"),
     price |->
        IF details.sync_variants # <<>>
            /\ OrElse(details.sync_variants[1], "retail_price", <<>>) # <<>>
        THEN PriceInMinorUnits(details.sync_variants[1].retail_price)
        ELSE IntToDouble(0),
     variant_id |->
        IF details.sync_variants # <<>> THEN Num(details.sync_variants[1].id)
        ELSE NullNumber]

\* the handler up to `await axios.get('.../store/products')`
GetProducts ==
    /\ prodPc = "idle"
    /\ prodPc' = "awaitList"
    /\ UNCHANGED <<prodList, prodDetail, prodStatus, prodBody, prodSent>>
    /\ UNCHANGED <<chkVars, whVars, pdVars, priceVars, mwVars, dlVars>>

\* the list call resolves: one detail fetch per product is issued, all at
\* once; Promise.all of no promise resolves at once to an empty list
ProductListReturns(list) ==
    /\ prodPc = "awaitList"
    /\ prodList' = list
    /\ prodDetail' = [i \in 1..Len(list) |-> [state |-> "pending"]]
    /\ IF list = <<>>
       THEN /\ prodStatus' = 200
            /\ prodBody' = <<>>
            /\ prodSent' = prodSent + 1
            /\ prodPc' = "done"
       ELSE /\ prodPc' = "awaitDetails"
            /\ UNCHANGED <<prodStatus, prodBody, prodSent>>
    /\ UNCHANGED errLog
    /\ UNCHANGED <<chkVars, whPc, whReq, whStatus, whFetched, listCalls,
                   printfulCalls, postOutcome, pdVars, priceVars, mwVars, dlVars>>

\* the list call rejects: the catch block answers 500
ProductListThrows ==
    /\ prodPc = "awaitList"
    /\ errLog' = Append(errLog, "Error fetching products from Printful")
    /\ prodStatus' = 500
    /\ prodSent' = prodSent + 1
    /\ prodPc' = "done"
    /\ UNCHANGED <<prodList, prodDetail, prodBody>>
    /\ UNCHANGED <<chkVars, whPc, whReq, whStatus, whFetched, listCalls,
                   printfulCalls, postOutcome, pdVars, priceVars, mwVars, dlVars>>

\* the number of detail promises that have settled
SettledCount == Cardinality({j \in 1..Len(prodDetail) : prodDetail[j].state # "pending"})

\* the positions of the list, in the order in which their promises settled
RECURSIVE ByCompletion(_, _)
ByCompletion(detail, n) ==
    IF n > Len(detail) THEN <<>>
    ELSE <<CHOOSE j \in 1..Len(detail) : detail[j].at = n>> \o ByCompletion(detail, n + 1)

PromiseAllSettlesInCompletionOrder(i, settled) ==
    LET detail == [prodDetail EXCEPT ![i] = settled @@ [at |-> SettledCount + 1]]
    IN  /\ prodDetail' = detail
        /\ IF prodPc # "awaitDetails"
           THEN UNCHANGED <<prodPc, prodStatus, prodBody, prodSent, errLog>>
           ELSE IF settled.state = "rejected"
           THEN /\ errLog' = Append(errLog, "Error fetching products from Printful")
                /\ prodStatus' = 500
                /\ prodSent' = prodSent + 1
                /\ prodPc' = "done"
                /\ UNCHANGED prodBody
           ELSE IF \A j \in 1..Len(detail) : detail[j].state = "resolved"
           THEN /\ prodBody' = [j \in 1..Len(detail) |->
                                    detail[ByCompletion(detail, 1)[j]].entry]
                /\ prodStatus' = 200
                /\ prodSent' = prodSent + 1
                /\ prodPc' = "done"
                /\ UNCHANGED errLog
           ELSE UNCHANGED <<prodPc, prodStatus, prodBody, prodSent, errLog>>

\* Promise.all after the promise of product i has settled as `settled` (at
\* records the order of settlement): the first rejection rejects it (the
\* catch block answers 500), the last fulfilment resolves it to the entries
\* in list order (200); once it has settled, later settlements change nothing
PromiseAllSettles(i, settled) ==
    LET detail == [prodDetail EXCEPT ![i] = settled @@ [at |-> SettledCount + 1]]
    IN  /\ prodDetail' = detail
        /\ IF prodPc # "awaitDetails"
           THEN UNCHANGED <<prodPc, prodStatus, prodBody, prodSent, errLog>>
           ELSE IF settled.state = "rejected"
           THEN /\ errLog' = Append(errLog, "Error fetching products from Printful")
                /\ prodStatus' = 500
                /\ prodSent' = prodSent + 1
                /\ prodPc' = "done"
                /\ UNCHANGED prodBody
           ELSE IF \A j \in 1..Len(detail) : detail[j].state = "resolved"
           THEN /\ prodBody' = [j \in 1..Len(detail) |-> detail[j].entry]
                /\ prodStatus' = 200
                /\ prodSent' = prodSent + 1
                /\ prodPc' = "done"
                /\ UNCHANGED errLog
           ELSE UNCHANGED <<prodPc, prodStatus, prodBody, prodSent, errLog>>

\* the detail fetch of product i resolves: its callback builds the entry, or
\* throws
ProductDetailReturns(i, details) ==
    /\ prodPc \in {"awaitDetails", "done"}
    /\ i \in 1..Len(prodDetail)
    /\ prodDetail[i].state = "pending"
    /\ PromiseAllSettles(i,
            IF EnrichThrows(details) THEN [state |-> "rejected"]
            ELSE [state |-> "resolved", details |-> details,
                  entry |-> EnrichProduct(prodList[i], details)])
    /\ UNCHANGED prodList
    /\ UNCHANGED <<chkVars, whPc, whReq, whStatus, whFetched, listCalls,
                   printfulCalls, postOutcome, pdVars, priceVars, mwVars, dlVars>>

\* the detail fetch of product i rejects
ProductDetailThrows(i) ==
    /\ prodPc \in {"awaitDetails", "done"}
    /\ i \in 1..Len(prodDetail)
    /\ prodDetail[i].state = "pending"
    /\ PromiseAllSettles(i, [state |-> "rejected"])
    /\ UNCHANGED prodList
    /\ UNCHANGED <<chkVars, whPc, whReq, whStatus, whFetched, listCalls,
                   printfulCalls, postOutcome, pdVars, priceVars, mwVars, dlVars>>

\* an own property of obj, when it has it
Pick(obj, fields) == [f \in (fields \cap DOMAIN obj) |-> obj[f]]

\* productDetails of GET /api/products/:id; a property whose value is
\* undefined is not in the JSON sent
ProductDetails(product) ==
    Pick(product.sync_product, {"id", "name", "thumbnail_url"})
        @@ [description |->
                OrElse(product.sync_product, "description", "No description available"),
            variants |->
                [i \in 1..Len(product.sync_variants) |->
                    [id |-> product.sync_variants[i].id,
                     name |-> product.sync_variants[i].name,
                     price |-> PriceInMinorUnits(product.sync_variants[i].retail_price),
                     thumbnail_url |->
                        IF "files" \in DOMAIN product.sync_variants[i]
                        THEN PreviewUrl(product.sync_variants[i].files)
                        ELSE NullString]]]

\* the handler up to `await axios.get('.../store/products/:id')`
GetProductById ==
    /\ pdPc = "idle"
    /\ pdPc' = "awaitDetail"
    /\ UNCHANGED <<pdResult, pdStatus, pdBody>>
    /\ UNCHANGED <<chkVars, whVars, prodVars, priceVars, mwVars, dlVars>>

\* the call resolves: 200 with productDetails, or 500 when sync_variants.map
\* of undefined throws
ProductByIdReturns(result) ==
    /\ pdPc = "awaitDetail"
    /\ pdResult' = result
    /\ IF "sync_variants" \notin DOMAIN result
       THEN /\ errLog' = Append(errLog, "Error fetching product with ID")
            /\ pdStatus' = 500
            /\ UNCHANGED pdBody
       ELSE /\ pdBody' = ProductDetails(result)
            /\ pdStatus' = 200
            /\ UNCHANGED errLog
    /\ pdPc' = "done"
    /\ UNCHANGED <<chkVars, whPc, whReq, whStatus, whFetched, listCalls,
                   printfulCalls, postOutcome, prodVars, priceVars, mwVars, dlVars>>

\* the call rejects: the catch block answers 500
ProductByIdThrows ==
    /\ pdPc = "awaitDetail"
    /\ errLog' = Append(errLog, "Error fetching product with ID")
    /\ pdStatus' = 500
    /\ pdPc' = "done"
    /\ UNCHANGED <<pdResult, pdBody>>
    /\ UNCHANGED <<chkVars, whPc, whReq, whStatus, whFetched, listCalls,
                   printfulCalls, postOutcome, prodVars, priceVars, mwVars, dlVars>>

(***************************************************************************)
(* The middleware stack of each server file, in registration order, and the *)
(* dispatch of one request through it.  req.body is "unread" while no body  *)
(* parser has looked at the request, "empty" after a parser that did not    *)
(* match set it to {}, and "object", "form" or "buffer" after express.json, *)
(* express.urlencoded or express.raw has consumed the raw bytes.            *)
(***************************************************************************)
Use(kind) == [kind |-> kind, method |-> "*", path |-> "*"]

Route(method, path) == [kind |-> "route", method |-> method, path |-> path]

ServerFiles == {"server.js", "part_000", "part_001", "part_002"}

Layers(file) ==
    IF file = "server.js" THEN
        << Use("cors"), Route("POST", "/webhook"),
           Use("json"), Use("urlencoded"),
           Route("GET", "/"), Route("GET", "/api/products"),
           Route("GET", "/api/products/:id"),
           Route("POST", "/api/stripe/create-checkout-session") >>
    ELSE IF file = "part_000" THEN
        << Use("cors"), Route("POST", "/webhook"),
           Use("json"), Use("urlencoded"), Use("json"), Use("urlencoded"),
           Route("GET", "/api/products"), Route("GET", "/api/products/:id"),
           Route("POST", "/api/stripe/create-checkout-session") >>
    ELSE IF file = "part_001" THEN
        << Use("cors"), Route("POST", "/webhook"),
           Use("json"), Use("urlencoded"),
           Route("GET", "/"), Route("GET", "/api/products"),
           Route("GET", "/api/products/:id"),
           Route("POST", "/api/stripe/create-checkout-session") >>
    ELSE
        << Use("cors"), Use("json"), Use("urlencoded"),
           Route("GET", "/"), Route("POST", "/webhook"),
           Route("GET", "/api/products"), Route("GET", "/api/products/:id"),
           Route("POST", "/api/stripe/create-checkout-session") >>

HttpRequests ==
    [method : {"GET", "POST"},
     path : {"/", "/webhook", "/api/products", "/api/stripe/create-checkout-session"},
     contentType : {"application/json", "application/x-www-form-urlencoded", "text/plain"}]

\* a body parser has consumed the request stream (req._body)
BodyParsed(body) == body \in {"object", "form", "buffer"}

\* a POST carries a body, a GET does not
HasBody(req) == req.method = "POST"

\* req.body after a body parser for content type `type` producing `parsed`
BodyParser(body, req, type, parsed) ==
    IF BodyParsed(body) THEN body
    ELSE IF HasBody(req) /\ req.contentType = type THEN parsed
    ELSE "empty"

ExpressJson(body, req) == BodyParser(body, req, "application/json", "object")

ExpressUrlencoded(body, req) ==
    BodyParser(body, req, "application/x-www-form-urlencoded", "form")

ExpressRaw(body, req) == BodyParser(body, req, "application/json", "buffer")

Dispatching ==
    /\ mwFile # "none"
    /\ mwSeen = "none"
    /\ mwNext <= Len(Layers(mwFile))

Layer == Layers(mwFile)[mwNext]

Matches(layer, req) == layer.method = req.method /\ layer.path = req.path

mwRest == <<chkVars, whVars, prodVars, pdVars, priceVars, dlVars>>

\* a request arrives at one of the servers
ReceiveRequest(file, req) ==
    /\ mwFile = "none"
    /\ mwFile' = file
    /\ mwReq' = req
    /\ mwNext' = 1
    /\ mwBody' = "unread"
    /\ mwSeen' = "none"
    /\ UNCHANGED mwRest

\* app.use(cors()): a GET or POST passes through
Cors ==
    /\ Dispatching
    /\ Layer.kind = "cors"
    /\ mwNext' = mwNext + 1
    /\ UNCHANGED <<mwFile, mwReq, mwBody, mwSeen>>
    /\ UNCHANGED mwRest

\* app.use(express.json())
UseExpressJson ==
    /\ Dispatching
    /\ Layer.kind = "json"
    /\ mwBody' = ExpressJson(mwBody, mwReq)
    /\ mwNext' = mwNext + 1
    /\ UNCHANGED <<mwFile, mwReq, mwSeen>>
    /\ UNCHANGED mwRest

\* app.use(express.urlencoded({ extended: true }))
UseExpressUrlencoded ==
    /\ Dispatching
    /\ Layer.kind = "urlencoded"
    /\ mwBody' = ExpressUrlencoded(mwBody, mwReq)
    /\ mwNext' = mwNext + 1
    /\ UNCHANGED <<mwFile, mwReq, mwSeen>>
    /\ UNCHANGED mwRest

\* a route whose method or path differs from the request's is passed over
SkipRoute ==
    /\ Dispatching
    /\ Layer.kind = "route"
    /\ ~Matches(Layer, mwReq)
    /\ mwNext' = mwNext + 1
    /\ UNCHANGED <<mwFile, mwReq, mwBody, mwSeen>>
    /\ UNCHANGED mwRest

\* app.post('/webhook', express.raw({ type: 'application/json' }), handler):
\* express.raw runs, then the handler reads req.body (mwSeen)
WebhookRoute ==
    /\ Dispatching
    /\ Layer.kind = "route"
    /\ Matches(Layer, mwReq)
    /\ Layer.path = "/webhook"
    /\ mwBody' = ExpressRaw(mwBody, mwReq)
    /\ mwSeen' = ExpressRaw(mwBody, mwReq)
    /\ UNCHANGED <<mwFile, mwReq, mwNext>>
    /\ UNCHANGED mwRest

\* any other matching route ends the dispatch in its own handler
OtherRoute ==
    /\ Dispatching
    /\ Layer.kind = "route"
    /\ Matches(Layer, mwReq)
    /\ Layer.path # "/webhook"
    /\ mwSeen' = "other route"
    /\ UNCHANGED <<mwFile, mwReq, mwNext, mwBody>>
    /\ UNCHANGED mwRest

\* no layer is left: express answers 404
NoRoute ==
    /\ mwFile # "none"
    /\ mwSeen = "none"
    /\ mwNext > Len(Layers(mwFile))
    /\ mwSeen' = "not found"
    /\ UNCHANGED <<mwFile, mwReq, mwNext, mwBody>>
    /\ UNCHANGED mwRest

(***************************************************************************)
(* POST /webhook delivered several times: every delivery runs the handler   *)
(* on its own req and res; the handlers interleave at their awaits and      *)
(* share nothing but the upstream services.                                 *)
(***************************************************************************)
dlRest ==
    <<chkVars, whPc, whReq, whStatus, whFetched, printfulCalls, postOutcome,
      prodVars, pdVars, priceVars, mwVars>>

\* delivery d arrives: the handler up to `await listLineItems(...)`, or to its
\* response when it does not get that far
Deliver(d, req) ==
    /\ dlPc[d] = "idle"
    /\ dlReq \in {<<>>, req}
    /\ dlReq' = req
    /\ IF ~ConstructEventOk(req.body, req.headers, EndpointSecret)
       THEN /\ errLog' = Append(errLog, SignatureFailedMessage)
            /\ dlStatus' = [dlStatus EXCEPT ![d] = 400]
            /\ dlPc' = [dlPc EXCEPT ![d] = "done"]
            /\ UNCHANGED listCalls
       ELSE IF IsCheckoutCompleted(req.body)
       THEN /\ listCalls' = listCalls + 1
            /\ dlPc' = [dlPc EXCEPT ![d] = "awaitListLineItems"]
            /\ UNCHANGED <<dlStatus, errLog>>
       ELSE /\ dlStatus' = [dlStatus EXCEPT ![d] = 200]
            /\ dlPc' = [dlPc EXCEPT ![d] = "done"]
            /\ UNCHANGED <<listCalls, errLog>>
    /\ UNCHANGED <<dlFetched, dlOrders>>
    /\ UNCHANGED dlRest

DeliveryListReturnsDeduplicated(d) ==
    /\ dlPc[d] = "awaitListLineItems"
    /\ dlFetched' = [dlFetched EXCEPT ![d] = TRUE]
    /\ IF RecipientThrows(dlReq.body.data.object)
       THEN /\ errLog' = Append(errLog, SignatureFailedMessage)
            /\ dlStatus' = [dlStatus EXCEPT ![d] = 400]
            /\ dlPc' = [dlPc EXCEPT ![d] = "done"]
            /\ UNCHANGED dlOrders
       ELSE /\ dlOrders' = IF dlOrders = <<>> THEN <<d>> ELSE dlOrders
            /\ dlPc' = [dlPc EXCEPT ![d] = "awaitPrintful"]
            /\ UNCHANGED <<dlStatus, errLog>>
    /\ UNCHANGED <<dlReq, listCalls>>
    /\ UNCHANGED dlRest

\* listLineItems returns to delivery d: the handler from there to
\* `await axios.post(...)`, or to the outer catch when building the
\* recipient throws.  The order posted is PrintfulOrder of the session and
\* the listed items; dlOrders records which delivery posted it.
DeliveryListReturns(d) ==
    /\ dlPc[d] = "awaitListLineItems"
    /\ dlFetched' = [dlFetched EXCEPT ![d] = TRUE]
    /\ IF RecipientThrows(dlReq.body.data.object)
       THEN /\ errLog' = Append(errLog, SignatureFailedMessage)
            /\ dlStatus' = [dlStatus EXCEPT ![d] = 400]
            /\ dlPc' = [dlPc EXCEPT ![d] = "done"]
            /\ UNCHANGED dlOrders
       ELSE /\ dlOrders' = Append(dlOrders, d)
            /\ dlPc' = [dlPc EXCEPT ![d] = "awaitPrintful"]
            /\ UNCHANGED <<dlStatus, errLog>>
    /\ UNCHANGED <<dlReq, listCalls>>
    /\ UNCHANGED dlRest

\* listLineItems rejects for delivery d: the outer catch answers 400
DeliveryListThrows(d) ==
    /\ dlPc[d] = "awaitListLineItems"
    /\ errLog' = Append(errLog, SignatureFailedMessage)
    /\ dlStatus' = [dlStatus EXCEPT ![d] = 400]
    /\ dlPc' = [dlPc EXCEPT ![d] = "done"]
    /\ UNCHANGED <<dlReq, dlFetched, dlOrders, listCalls>>
    /\ UNCHANGED dlRest

\* axios.post of delivery d resolves: the handler answers 200
DeliveryPostReturns(d) ==
    /\ dlPc[d] = "awaitPrintful"
    /\ dlStatus' = [dlStatus EXCEPT ![d] = 200]
    /\ dlPc' = [dlPc EXCEPT ![d] = "done"]
    /\ UNCHANGED <<dlReq, dlFetched, dlOrders, listCalls, errLog>>
    /\ UNCHANGED dlRest

\* axios.post of delivery d rejects: the inner catch logs it and the handler
\* answers 200
DeliveryPostThrows(d) ==
    /\ dlPc[d] = "awaitPrintful"
    /\ errLog' = Append(errLog, "Error creating Printful order")
    /\ dlStatus' = [dlStatus EXCEPT ![d] = 200]
    /\ dlPc' = [dlPc EXCEPT ![d] = "done"]
    /\ UNCHANGED <<dlReq, dlFetched, dlOrders, listCalls>>
    /\ UNCHANGED dlRest

(***************************************************************************)
(* The specifications.                                                      *)
(***************************************************************************)
Init ==
    /\ chkPc = "idle"
    /\ chkBody = <<>>
    /\ chkStatus = 0
    /\ createCalls = <<>>
    /\ stripeSessions = <<>>
    /\ whPc = "idle"
    /\ whReq = <<>>
    /\ whStatus = 0
    /\ whFetched = <<>>
    /\ listCalls = 0
    /\ printfulCalls = <<>>
    /\ postOutcome = "none"
    /\ errLog = <<>>
    /\ prodPc = "idle"
    /\ prodList = <<>>
    /\ prodDetail = <<>>
    /\ prodStatus = 0
    /\ prodBody = <<>>
    /\ prodSent = 0
    /\ pdPc = "idle"
    /\ pdResult = <<>>
    /\ pdStatus = 0
    /\ pdBody = <<>>
    /\ priceIn = <<>>
    /\ priceOut = <<>>
    /\ mwFile = "none"
    /\ mwReq = <<>>
    /\ mwNext = 0
    /\ mwBody = "unread"
    /\ mwSeen = "none"
    /\ dlReq = <<>>
    /\ dlPc = [d \in Deliveries |-> "idle"]
    /\ dlStatus = [d \in Deliveries |-> 0]
    /\ dlFetched = [d \in Deliveries |-> FALSE]
    /\ dlOrders = <<>>

Next ==
    \/ \E body \in CheckoutBodies : CreateCheckoutSession(body)
    \/ StripeCreateReturns
    \/ StripeCreateThrows
    \/ \E req \in WebhookRequests : WebhookRequest(req)
    \/ ListLineItemsReturns
    \/ ListLineItemsThrows
    \/ PrintfulPostReturns
    \/ PrintfulPostThrows

Spec == Init /\ [][Next]_vars

\* every upstream call of the webhook handler eventually returns or throws
FairSpec ==
    /\ Spec
    /\ WF_vars(ListLineItemsReturns \/ ListLineItemsThrows)
    /\ WF_vars(PrintfulPostReturns \/ PrintfulPostThrows)

NextProducts ==
    \/ GetProducts
    \/ \E list \in ProductLists : ProductListReturns(list)
    \/ ProductListThrows
    \/ \E i \in 1..MaxProducts : \E details \in DetailResults(i) :
            ProductDetailReturns(i, details)
    \/ \E i \in 1..MaxProducts : ProductDetailThrows(i)
    \/ GetProductById
    \/ \E result \in DetailResults(MaxProductId) : ProductByIdReturns(result)
    \/ ProductByIdThrows

SpecProducts == Init /\ [][NextProducts]_vars

(***************************************************************************)
(* Price normalization: parseFloat(retail_price) * 100, on its own.         *)
(***************************************************************************)
ConvertPrice(retail_price) ==
    /\ priceIn = <<>>
    /\ priceIn' = retail_price
    /\ priceOut' = PriceInMinorUnits(retail_price)
    /\ UNCHANGED <<chkVars, whVars, prodVars, pdVars, mwVars, dlVars>>

NextPrice == \E retail_price \in RetailPrices : ConvertPrice(retail_price)

SpecPrice == Init /\ [][NextPrice]_vars

NextMiddleware ==
    \/ \E file \in ServerFiles : \E req \in HttpRequests : ReceiveRequest(file, req)
    \/ Cors
    \/ UseExpressJson
    \/ UseExpressUrlencoded
    \/ SkipRoute
    \/ WebhookRoute
    \/ OtherRoute
    \/ NoRoute

SpecMiddleware == Init /\ [][NextMiddleware]_vars

NextDeliveries ==
    \/ \E d \in Deliveries : \E req \in WebhookRequests : Deliver(d, req)
    \/ \E d \in Deliveries : DeliveryListReturns(d)
    \/ \E d \in Deliveries : DeliveryListThrows(d)
    \/ \E d \in Deliveries : DeliveryPostReturns(d)
    \/ \E d \in Deliveries : DeliveryPostThrows(d)

SpecDeliveries == Init /\ [][NextDeliveries]_vars

(***************************************************************************)
(* Properties.  They state verification, the event kind and the line        *)
(* items in their own terms, not through the operators of the handlers.     *)
(***************************************************************************)
\* the request carries the signature of its own body under the endpoint secret
GenuineRequest(req) ==
    /\ "stripe_signature" \in DOMAIN req.headers
    /\ req.headers.stripe_signature.payload = req.body
    /\ req.headers.stripe_signature.secret = EndpointSecret

CompletedRequest(req) == req.body.type = "checkout.session.completed"

Logged(message) == \E i \in 1..Len(errLog) : errLog[i] = message

LacksVariant(listed) == "variant_id" \notin DOMAIN listed.price.metadata

\* C1: a request whose signature does not verify is answered 400, never 200,
\* and issues no line-item fetch and no Printful order; so a fetch or an order
\* is only ever issued for a request whose signature verified.
C1_SignatureFailureRejected ==
    /\ (whPc # "idle" /\ ~GenuineRequest(whReq)) =>
            /\ whPc = "done"
            /\ whStatus = 400
            /\ listCalls = 0
            /\ printfulCalls = <<>>
    /\ (listCalls > 0 \/ printfulCalls # <<>>) => GenuineRequest(whReq)

\* a completed-session body delivered under the endpoint secret's signature
\* of another payload, rejected
C1_Witness ==
    /\ whPc = "done"
    /\ whStatus = 400
    /\ CompletedRequest(whReq)
    /\ "customer_details" \in DOMAIN whReq.body.data.object
    /\ "stripe_signature" \in DOMAIN whReq.headers
    /\ whReq.headers.stripe_signature.secret = EndpointSecret
    /\ whReq.headers.stripe_signature.payload # whReq.body

\* C2: a verified event of any type other than checkout.session.completed is
\* answered 200 and issues no line-item fetch and no Printful order.
C2_OtherEventsAcknowledgedOnly ==
    (whPc # "idle" /\ GenuineRequest(whReq) /\ ~CompletedRequest(whReq)) =>
        /\ whPc = "done"
        /\ whStatus = 200
        /\ listCalls = 0
        /\ printfulCalls = <<>>

C2_Witness ==
    /\ whPc = "done"
    /\ GenuineRequest(whReq)
    /\ whReq.body.type = "payment_intent.succeeded"
    /\ whStatus = 200

\* C3: when the POST to Printful throws, the webhook is still answered 200,
\* the failure is logged, and the order is not submitted again.
C3_SubmissionFailureStillAcknowledged ==
    postOutcome = "threw" =>
        /\ whPc = "done"
        /\ whStatus = 200
        /\ Logged("Error creating Printful order")
        /\ Len(printfulCalls) = 1

C3_Witness ==
    /\ postOutcome = "threw"
    /\ GenuineRequest(whReq)
    /\ CompletedRequest(whReq)
    /\ whStatus = 200
    /\ Len(printfulCalls) = 1

\* C4: the webhook answers 400 only when signature verification failed: every
\* request whose signature verifies is answered 200.
C4_Only400OnSignatureFailure ==
    /\ (whPc = "done" /\ GenuineRequest(whReq)) => whStatus = 200
    /\ whStatus = 400 => ~GenuineRequest(whReq)

\* C5: a verified completed event whose session has no customer_details, and
\* whose line items were fetched, submits no Printful order and is answered 200.
C5_MissingCustomerDetailsAcknowledged ==
    (/\ whPc = "done"
     /\ GenuineRequest(whReq)
     /\ CompletedRequest(whReq)
     /\ "customer_details" \notin DOMAIN whReq.body.data.object
     /\ whFetched # <<>>) =>
        /\ printfulCalls = <<>>
        /\ whStatus = 200

\* C6: when one of two fetched line items lacks the variant metadata, the
\* submitted order has exactly one line, the one of the item that has it.
C6_ItemWithoutVariantDropped ==
    (/\ printfulCalls # <<>>
     /\ whFetched # <<>>
     /\ Len(whFetched[1]) = 2
     /\ Cardinality({i \in 1..2 : LacksVariant(whFetched[1][i])}) = 1) =>
        LET valid == CHOOSE i \in 1..2 : ~LacksVariant(whFetched[1][i])
            items == printfulCalls[1].items
        IN  /\ Len(items) = 1
            /\ ~items[1].variant_id.nan
            /\ items[1].quantity = whFetched[1][valid].quantity

\* C7: when every fetched line item lacks the variant metadata, no Printful
\* order is submitted and the webhook is answered 200.
C7_NoOrderWhenAllItemsLackVariant ==
    (/\ whPc # "idle"
     /\ GenuineRequest(whReq)
     /\ CompletedRequest(whReq)
     /\ whFetched # <<>>
     /\ whFetched[1] # <<>>
     /\ \A i \in 1..Len(whFetched[1]) : LacksVariant(whFetched[1][i])) =>
        /\ printfulCalls = <<>>
        /\ whPc = "done" => whStatus = 200

\* the fetched line items are exactly those create-checkout-session built,
\* metadata included
FetchedAsCreated ==
    /\ createCalls # <<>>
    /\ whFetched # <<>>
    /\ Len(whFetched[1]) = Len(createCalls[1].line_items)
    /\ \A i \in 1..Len(whFetched[1]) :
        /\ whFetched[1][i].price.metadata = createCalls[1].line_items[i].price_data.metadata
        /\ whFetched[1][i].quantity = createCalls[1].line_items[i].quantity

\* C8: end to end, when the webhook fetches the line items that
\* create-checkout-session built from the cart, the submitted order has one
\* line per cart item, in cart order, with the cart item's variant id (as a
\* number) and quantity.
C8_OrderLinesMatchCart ==
    (FetchedAsCreated /\ printfulCalls # <<>>) =>
        LET cart == chkBody.cart
            items == printfulCalls[1].items
        IN  /\ Len(items) = Len(cart)
            /\ \A i \in 1..Len(cart) :
                /\ items[i].variant_id = Num(cart[i].variant_id)
                /\ items[i].quantity = cart[i].quantity

\* a two-item cart of a one-digit and a three-digit variant id, ordered
C8_Witness ==
    /\ FetchedAsCreated
    /\ printfulCalls # <<>>
    /\ Len(chkBody.cart) = 2
    /\ chkBody.cart[1].variant_id = MaxVariantId
    /\ chkBody.cart[2].variant_id = MinVariantId
    /\ chkBody.cart[1].quantity # chkBody.cart[2].quantity
    /\ Len(printfulCalls[1].items) = 2
    /\ postOutcome = "returned"

RECURSIVE CartTotal(_)
CartTotal(cart) ==
    IF cart = <<>> THEN 0
    ELSE Head(cart).price * Head(cart).quantity + CartTotal(Tail(cart))

RECURSIVE LineItemsTotal(_)
LineItemsTotal(items) ==
    IF items = <<>> THEN 0
    ELSE Head(items).price_data.unit_amount * Head(items).quantity
            + LineItemsTotal(Tail(items))

\* C9: the line items sent to Stripe have the length and order of the cart,
\* each with the cart item's price as unit_amount and its quantity, so both
\* totals of price * quantity agree.
C9_PricesPassedThrough ==
    \A n \in 1..Len(createCalls) :
        LET cart == chkBody.cart
            items == createCalls[n].line_items
        IN  /\ Len(items) = Len(cart)
            /\ \A i \in 1..Len(cart) :
                /\ items[i].price_data.unit_amount = cart[i].price
                /\ items[i].quantity = cart[i].quantity
            /\ LineItemsTotal(items) = CartTotal(cart)

C9_Witness ==
    /\ chkStatus = 200
    /\ Len(createCalls) = 1
    /\ Len(chkBody.cart) = 2
    /\ chkBody.cart[1].price = MaxPrice
    /\ chkBody.cart[1].quantity = MaxQty
    /\ chkBody.cart[2].price = 0
    /\ LineItemsTotal(createCalls[1].line_items) = MaxPrice * MaxQty

\* C10: a request whose cart is empty or is no sequence is answered 400 and
\* no session-creation request is sent to Stripe.
C10_EmptyCartRejected ==
    (chkPc # "idle" /\ ("cart" \notin DOMAIN chkBody \/ chkBody.cart = <<>>)) =>
        /\ createCalls = <<>>
        /\ chkPc = "done"
        /\ chkStatus = 400

\* the number of minor units a price string with two fraction digits names
MinorUnits(retail_price) ==
    DecimalValue(SelectSeq(retail_price, LAMBDA c : c # "."))

\* C13: parseFloat(retail_price) * 100 is the exact integer number of minor
\* units of every price string with two fraction digits ("19.99" gives 1999).
C13_PriceExactMinorUnits ==
    priceIn # <<>> => priceOut = IntToDouble(MinorUnits(priceIn))

\* C11: GET /api/products sends exactly one response: 200 with one entry per
\* product of the upstream list, in list order whatever the order in which
\* the detail fetches completed, or 500 with no list; as soon as the list
\* call or one detail call has failed the response is 500, and several
\* failing detail calls still give one response.
C11_ProductsAllOrNothing ==
    /\ prodSent <= 1
    /\ prodSent = 1 <=> prodStatus \in {200, 500}
    /\ prodSent = 0 <=> prodStatus = 0
    /\ prodStatus = 200 =>
        /\ Len(prodBody) = Len(prodList)
        /\ \A i \in 1..Len(prodList) :
            /\ prodDetail[i].state = "resolved"
            /\ prodBody[i] = prodDetail[i].entry
            /\ prodBody[i].id = prodList[i].id
    /\ prodStatus # 200 => prodBody = <<>>
    /\ (\E i \in 1..Len(prodDetail) : prodDetail[i].state = "rejected") => prodStatus = 500
    /\ Logged("Error fetching products from Printful") => prodStatus = 500

\* two products whose detail fetches completed in reverse order, listed in
\* upstream order
C11_Witness ==
    /\ prodStatus = 200
    /\ prodSent = 1
    /\ Len(prodList) = 2
    /\ prodDetail[2].at < prodDetail[1].at
    /\ prodBody[1].id = prodList[1].id
    /\ prodBody[2].id = prodList[2].id
    /\ prodBody[1].id # prodBody[2].id

NoPreview(variant) ==
    \/ "files" \notin DOMAIN variant
    \/ \A i \in 1..Len(variant.files) : variant.files[i].type # "preview"

ImageFallback(product) ==
    IF "thumbnail_url" \in DOMAIN product THEN product.thumbnail_url ELSE "default_image_url"

\* C12: in both product endpoints, a variant without a preview file gets the
\* product thumbnail as its image, or 'default_image_url' when the product
\* has no thumbnail either, and the request is answered 200.
C12_MissingImageFallback ==
    /\ \A i \in 1..Len(prodDetail) :
        (/\ prodDetail[i].state = "resolved"
         /\ prodDetail[i].details.sync_variants # <<>>
         /\ NoPreview(prodDetail[i].details.sync_variants[1])) =>
            prodDetail[i].entry.thumbnail_url = ImageFallback(prodList[i])
    /\ (pdPc = "done" /\ pdResult # <<>> /\ "sync_variants" \in DOMAIN pdResult) =>
        /\ pdStatus = 200
        /\ \A i \in 1..Len(pdResult.sync_variants) :
            NoPreview(pdResult.sync_variants[i]) =>
                pdBody.variants[i].thumbnail_url = ImageFallback(pdResult.sync_product)

\* a body parser registered with app.use stands before the /webhook route
ParserAheadOfWebhook(file) ==
    \E i, j \in 1..Len(Layers(file)) :
        /\ i < j
        /\ Layers(file)[i].kind \in {"json", "urlencoded"}
        /\ Layers(file)[j] = Route("POST", "/webhook")

\* C14: in every server file no express.json / express.urlencoded is
\* registered ahead of the /webhook route, and the /webhook handler of a
\* JSON POST receives the raw bytes of the body.
C14_WebhookBodyRaw ==
    /\ mwFile # "none" => ~ParserAheadOfWebhook(mwFile)
    /\ (mwSeen \notin {"none", "other route", "not found"}
            /\ mwReq.contentType = "application/json") => mwSeen = "buffer"

\* the value of a field of the customer details, or its default
Collected(details, field, default) ==
    IF field \in DOMAIN details THEN details[field] ELSE default

\* C15: the recipient of the submitted order carries name, address lines,
\* city, region, country, postal code, email and phone of the session's
\* customer details; a missing name becomes the placeholder, a missing
\* address line 2 or phone the empty string, a missing country 'US'.
C15_RecipientFieldsAndDefaults ==
    (printfulCalls # <<>> /\ whPc # "idle") =>
        LET details == whReq.body.data.object.customer_details
            recipient == printfulCalls[1].recipient
        IN  /\ recipient.name = Collected(details, "name", "No Name Provided")
            /\ recipient.address1 = Collected(details.address, "line1", "")
            /\ recipient.address2 = Collected(details.address, "line2", "")
            /\ recipient.city = Collected(details.address, "city", "")
            /\ recipient.state_code = Collected(details.address, "state", "")
            /\ recipient.country_code = Collected(details.address, "country", "US")
            /\ recipient.zip = Collected(details.address, "postal_code", "")
            /\ "email" \in DOMAIN recipient
            /\ recipient.email = Collected(details, "email", "")
            /\ "phone" \in DOMAIN recipient
            /\ recipient.phone = Collected(details, "phone", "")

\* the number of submissions to Printful issued by delivery d
Submissions(d) == Cardinality({i \in 1..Len(dlOrders) : dlOrders[i] = d})

\* C16: when one verified checkout.session.completed event with customer
\* details is delivered several times, every delivery whose line items were
\* listed issues exactly one submission of its own, whatever the other
\* deliveries did, and is answered 200: n such deliveries give n submissions.
C16_EveryDeliverySubmits ==
    (/\ dlReq # <<>>
     /\ GenuineRequest(dlReq)
     /\ CompletedRequest(dlReq)
     /\ "customer_details" \in DOMAIN dlReq.body.data.object
     /\ "address" \in DOMAIN dlReq.body.data.object.customer_details) =>
        /\ \A d \in Deliveries :
            /\ Submissions(d) = (IF dlFetched[d] THEN 1 ELSE 0)
            /\ (dlFetched[d] /\ dlPc[d] = "done") => dlStatus[d] = 200
            /\ (dlFetched[d] /\ dlPc[d] # "done") => dlStatus[d] = 0
        /\ Len(dlOrders) = Cardinality({d \in Deliveries : dlFetched[d]})

\* every delivery has been handled and acknowledged, the last one having
\* submitted its order first
C16_Witness ==
    /\ dlReq # <<>>
    /\ GenuineRequest(dlReq)
    /\ CompletedRequest(dlReq)
    /\ \A d \in Deliveries : dlPc[d] = "done" /\ dlStatus[d] = 200 /\ dlFetched[d]
    /\ Len(dlOrders) = MaxDeliveries
    /\ dlOrders[1] = MaxDeliveries

\* C17: the 200 is sent without waiting for the submission to Printful:
\* while the submission is outstanding the event has been acknowledged.
C17_AcknowledgedWithoutWaiting ==
    postOutcome = "pending" => whStatus = 200

\* C17, as the handler behaves: the handler awaits the submission, so while
\* it is outstanding no response has been sent, and a verified completed
\* event that was submitted is acknowledged with 200 only after the
\* submission has returned or thrown, whichever of the two it did.
C17_AcknowledgedAfterSubmissionSettles ==
    /\ postOutcome = "pending" => (whStatus = 0 /\ whPc = "awaitPrintful")
    /\ (whStatus = 200 /\ printfulCalls # <<>>) => postOutcome \in {"returned", "threw"}
    /\ postOutcome \in {"returned", "threw"} => whStatus = 200

\* the submission is outstanding and the event is not acknowledged yet
C17_Witness ==
    /\ postOutcome = "pending"
    /\ Len(printfulCalls) = 1
    /\ whPc = "awaitPrintful"
    /\ whStatus = 0

\* C18: a webhook request that was received eventually reaches one terminal
\* outcome, 200 or 400, once its upstream calls return or throw; it is
\* answered exactly when it is over, issues at most one submission, and
\* after its response nothing of the request changes any more.
C18_ReceivedVerifiedTerminal ==
    /\ (whPc # "idle") ~> (whPc = "done" /\ whStatus \in {200, 400})
    /\ [](whStatus \in {0, 200, 400})
    /\ [](whStatus # 0 <=> whPc = "done")
    /\ [](Len(printfulCalls) <= 1)
    /\ [][whStatus # 0 => UNCHANGED <<whPc, whReq, whStatus, whFetched, listCalls,
                                    printfulCalls, postOutcome>>]_vars

\* a request went through the line-item fetch and the submission to its
\* acknowledgment
C18_Witness ==
    /\ whPc = "done"
    /\ whStatus = 200
    /\ listCalls = 1
    /\ whFetched # <<>>
    /\ Len(printfulCalls) = 1
    /\ postOutcome \in {"returned", "threw"}

====
